---- MODULE Spec2Model ----
(***************************************************************************)
(* ResumeForge document mutation layer (src/tools.py, src/schema.py).      *)
(*                                                                         *)
(* The persisted file resume.json is the variable `data`.  Every tool      *)
(* function of tools.py is an operator from the loaded document and the    *)
(* call's arguments to a result record                                     *)
(*     [data, ret, wrote, raised]                                          *)
(* (file content after the call, returned value, whether the file was      *)
(* written, whether the call ended in an exception), and an action that    *)
(* applies it to the file.  Spec runs the calls one after the other; in    *)
(* SpecConc two callers run them with the load and the rest of a call as   *)
(* separate steps, `procs` holding what each caller has loaded.            *)
(*                                                                         *)
(* Python values: a str is a sequence of one-character strings, None in a  *)
(* str position is the one-token sequence <<"None">>, a list is a          *)
(* sequence, an Optional[list] argument is <<>> for None and <<l>> for the *)
(* list l, an entity id such as "exp_3" is the tuple of its "_"-separated  *)
(* parts with the decimal part as a number, <<"exp", 3>>.                  *)
(***************************************************************************)
EXTENDS Integers, Sequences, FiniteSets, TLC

VARIABLES data, prev, last, seen, steps, procs

vars == <<data, prev, last, seen, steps, procs>>

\* ---------------------------------------------------------------- bounds
\* number of tool calls in one behaviour
MaxOps == 2
\* numeric suffix of the id a caller passes that names no entity
AbsentNum == 9

\* ---------------------------------------------------------------- values
None == <<"None">>
Chars == {" ", "a", "b"}
IsStr(v) == v \in Seq(Chars)

S_empty == <<>>
S_blank == <<" ">>
S_a == <<"a">>
S_b == <<"b">>
S_pad_b == <<" ", "b", " ">>

\* bool(v) of a str-or-None value
Truthy(v) == v # None /\ v # <<>>

RECURSIVE lstrip(_)
lstrip(s) == IF s # <<>> /\ Head(s) = " " THEN lstrip(Tail(s)) ELSE s

RECURSIVE rstrip(_)
rstrip(s) == IF s # <<>> /\ s[Len(s)] = " " THEN rstrip(SubSeq(s, 1, Len(s) - 1)) ELSE s

\* str.strip()
strip(s) == rstrip(lstrip(s))

\* `not x or not x.strip()` of the add and replace operations
IsBlank(v) == ~Truthy(v) \/ ~Truthy(strip(v))

\* ids: "<prefix>_<n>"
mkid(prefix, n) == <<prefix, n>>
\* id.startswith(prefix + "_")
startswith(id, prefix) == Len(id) >= 2 /\ id[1] = prefix
\* int(id.split("_")[1])
suffix(id) == id[2]

SetMax(S) == CHOOSE m \in S : \A x \in S : x <= m

\* returned strings: the f-string template and its interpolated values
Msg(text, args) == [msg |-> text, args |-> args]

\* ---------------------------------------------------------------- schema
ValidExperience(e) ==
    /\ IsStr(e.company) /\ IsStr(e.role) /\ IsStr(e.dates)
    /\ \A i \in 1..Len(e.bullets) : IsStr(e.bullets[i])

ValidProject(p) == IsStr(p.name) /\ IsStr(p.description)

ValidEducation(e) == IsStr(e.degree) /\ IsStr(e.institution) /\ IsStr(e.year)

\* Resume(**data) does not raise
ValidResume(d) ==
    /\ IsStr(d.summary)
    /\ \A i \in 1..Len(d.experiences) : ValidExperience(d.experiences[i])
    /\ \A i \in 1..Len(d.skills) : IsStr(d.skills[i])
    /\ \A i \in 1..Len(d.projects) : ValidProject(d.projects[i])
    /\ \A i \in 1..Len(d.education) : ValidEducation(d.education[i])

\* ---------------------------------------------------------------- the JSON file
\* The text json.dump writes is the tree of its tagged values: <<"string", s>>,
\* <<"array", items>>, <<"object", pairs>> with the pairs in the order of the dict's keys.
json_string(s) == <<"string", s>>

\* an array written back to front
json_array_reversed(items) == <<"array", [i \in 1..Len(items) |-> items[Len(items) + 1 - i]]>>

json_array(items) == <<"array", items>>

json_object(pairs) == <<"object", pairs>>

dump_strings(l) == json_array([i \in 1..Len(l) |-> json_string(l[i])])

dump_experience(e) ==
    json_object(<< <<"id", json_string(e.id)>>, <<"company", json_string(e.company)>>,
                   <<"role", json_string(e.role)>>, <<"dates", json_string(e.dates)>>,
                   <<"bullets", dump_strings(e.bullets)>> >>)

dump_project(p) ==
    json_object(<< <<"id", json_string(p.id)>>, <<"name", json_string(p.name)>>,
                   <<"description", json_string(p.description)>> >>)

dump_education(e) ==
    json_object(<< <<"id", json_string(e.id)>>, <<"degree", json_string(e.degree)>>,
                   <<"institution", json_string(e.institution)>>, <<"year", json_string(e.year)>> >>)

\* json.dump(data, f, indent=2)
json_dump(d) ==
    json_object(<< <<"summary", json_string(d.summary)>>,
                   <<"experiences",
                     json_array([i \in 1..Len(d.experiences) |-> dump_experience(d.experiences[i])])>>,
                   <<"skills", dump_strings(d.skills)>>,
                   <<"projects",
                     json_array([i \in 1..Len(d.projects) |-> dump_project(d.projects[i])])>>,
                   <<"education",
                     json_array([i \in 1..Len(d.education) |-> dump_education(d.education[i])])>> >>)

\* json.load(f): a dict keeps, for each key, the value of the last pair with that key
RECURSIVE json_load(_)
json_load(v) ==
    CASE v[1] = "string" -> v[2]
      [] v[1] = "array" -> [i \in 1..Len(v[2]) |-> json_load(v[2][i])]
      [] v[1] = "object" ->
            [k \in {v[2][i][1] : i \in 1..Len(v[2])} |->
                json_load(v[2][CHOOSE i \in 1..Len(v[2]) :
                                  /\ v[2][i][1] = k
                                  /\ \A j \in (i + 1)..Len(v[2]) : v[2][j][1] # k][2])]

\* ---------------------------------------------------------------- load / save
Returned(d, ret) == [data |-> d, ret |-> ret, wrote |-> FALSE, raised |-> FALSE]

\* a save that skips the validation
save_resume_unvalidated(file, new) ==
    [data |-> new, ret |-> Msg("Resume saved successfully.", <<>>), wrote |-> TRUE, raised |-> FALSE]

\* _save_resume(new) with `file` the current content of resume.json
save_resume(file, new) ==
    IF ValidResume(new)
    THEN [data |-> json_load(json_dump(new)), ret |-> Msg("Resume saved successfully.", <<>>),
          wrote |-> TRUE, raised |-> FALSE]
    ELSE [data |-> file, ret |-> Msg("ValidationError", <<>>),
          wrote |-> FALSE, raised |-> TRUE]

\* a save whose exception is swallowed before the message is returned
SaveThenReturn_swallow(file, new, ret) ==
    [save_resume(file, new) EXCEPT !.ret = ret, !.raised = FALSE]

\* `_save_resume(data)` followed by `return <message>`
SaveThenReturn(file, new, ret) ==
    LET r == save_resume(file, new)
    IN IF r.raised THEN r ELSE [r EXCEPT !.ret = ret]

\* ---------------------------------------------------------------- helpers on collections
Ids(coll) == {coll[i].id : i \in 1..Len(coll)}

HasId(coll, id) == \E i \in 1..Len(coll) : coll[i].id = id

\* index of the first entry the `for ... if x["id"] == id` loop stops at
FirstIdx(coll, id) ==
    CHOOSE i \in 1..Len(coll) : coll[i].id = id /\ \A j \in 1..(i - 1) : coll[j].id # id

\* a removal of the first entry when the id is in the list
WithoutFirst(coll, id) == IF \E i \in 1..Len(coll) : coll[i].id = id THEN Tail(coll) ELSE coll

\* [x for x in coll if x["id"] != id]
RECURSIVE WithoutId(_, _)
WithoutId(coll, id) ==
    IF coll = <<>> THEN <<>>
    ELSE IF Head(coll).id = id THEN WithoutId(Tail(coll), id)
    ELSE <<Head(coll)>> \o WithoutId(Tail(coll), id)

\* the suffixes of all ids, whatever their prefix
existing_ids_any_prefix(coll, prefix) == {suffix(coll[i].id) : i \in 1..Len(coll)}

\* existing_ids = [int(x["id"].split("_")[1]) for x in coll if x["id"].startswith(prefix_)]
existing_ids(coll, prefix) ==
    {suffix(coll[i].id) : i \in {j \in 1..Len(coll) : startswith(coll[j].id, prefix)}}

\* count + 1 instead of max + 1
new_id_by_count(coll, prefix) == mkid(prefix, Len(coll) + 1)

\* the lowest suffix that is free
new_id_lowest_free(coll, prefix) ==
    LET ex == existing_ids(coll, prefix)
    IN mkid(prefix, CHOOSE n \in 1..(Len(coll) + 1) : n \notin ex /\ \A k \in 1..(n - 1) : k \in ex)

\* f"{prefix}_{max(existing_ids, default=0) + 1}"
new_id(coll, prefix) ==
    LET ex == existing_ids(coll, prefix)
    IN mkid(prefix, (IF ex = {} THEN 0 ELSE SetMax(ex)) + 1)

\* an insert at the end
insert_last(coll, x) == coll \o <<x>>

\* list.insert(0, x)
insert0(coll, x) == <<x>> \o coll

\* list.append(x)
append(coll, x) == Append(coll, x)

\* list.pop(): the list without its last element
RemoveLast(s, i) == SubSeq(s, 1, Len(s) - 1)

\* list.pop(i) / list.remove(x): the list without its element at 1-based index i
RemoveAt(s, i) == SubSeq(s, 1, i - 1) \o SubSeq(s, i + 1, Len(s))

\* `x in list`
InList(s, x) == \E i \in 1..Len(s) : s[i] = x

FirstPos(s, x) == CHOOSE i \in 1..Len(s) : s[i] = x /\ \A j \in 1..(i - 1) : s[j] # x

\* ---------------------------------------------------------------- read tools
\* json.dumps(x, indent=2): the text that denotes the JSON value x
json_dumps(x) == Msg("json", <<x>>)

get_resume(d) == Returned(d, Msg("dict", <<d>>))

\* a list of sections that lacks the last one
valid_sections_short == {"summary", "experiences", "skills", "projects"}

valid_sections == {"summary", "experiences", "skills", "projects", "education"}

get_section(d, section_name) ==
    IF section_name \notin valid_sections
    THEN Returned(d, Msg("Error: Invalid section '{}'. Valid sections: {}", <<section_name>>))
    ELSE Returned(d, json_dumps(d[section_name]))

get_summary(d) == Returned(d, Msg("{}", <<d.summary>>))

get_experiences(d) == Returned(d, json_dumps(d.experiences))

get_experience_by_id(d, experience_id) ==
    IF HasId(d.experiences, experience_id)
    THEN Returned(d, json_dumps(d.experiences[FirstIdx(d.experiences, experience_id)]))
    ELSE Returned(d, Msg("Error: Experience with ID '{}' not found.", <<experience_id>>))

get_skills(d) == Returned(d, json_dumps(d.skills))

get_projects(d) == Returned(d, json_dumps(d.projects))

get_project_by_id(d, project_id) ==
    IF HasId(d.projects, project_id)
    THEN Returned(d, json_dumps(d.projects[FirstIdx(d.projects, project_id)]))
    ELSE Returned(d, Msg("Error: Project with ID '{}' not found.", <<project_id>>))

get_education(d) == Returned(d, json_dumps(d.education))

get_education_by_id(d, education_id) ==
    IF HasId(d.education, education_id)
    THEN Returned(d, json_dumps(d.education[FirstIdx(d.education, education_id)]))
    ELSE Returned(d, Msg("Error: Education with ID '{}' not found.", <<education_id>>))

\* ---------------------------------------------------------------- summary
\* an update that saves a document rebuilt with the skills at their default, the empty list
update_summary_resets_skills(d, new_summary) ==
    IF IsBlank(new_summary)
    THEN Returned(d, Msg("Error: Summary cannot be empty.", <<>>))
    ELSE save_resume(d, [d EXCEPT !.summary = strip(new_summary), !.skills = <<>>])

update_summary(d, new_summary) ==
    IF IsBlank(new_summary)
    THEN Returned(d, Msg("Error: Summary cannot be empty.", <<>>))
    ELSE save_resume(d, [d EXCEPT !.summary = strip(new_summary)])

\* ---------------------------------------------------------------- experiences
update_experience(d, experience_id, company, role, dates) ==
    IF HasId(d.experiences, experience_id)
    THEN LET i == FirstIdx(d.experiences, experience_id)
             e0 == d.experiences[i]
             e1 == IF Truthy(company) THEN [e0 EXCEPT !.company = company] ELSE e0
             e2 == IF Truthy(role) THEN [e1 EXCEPT !.role = role] ELSE e1
             e3 == IF Truthy(dates) THEN [e2 EXCEPT !.dates = dates] ELSE e2
         IN save_resume(d, [d EXCEPT !.experiences[i] = e3])
    ELSE Returned(d, Msg("Error: Experience with ID '{}' not found.", <<experience_id>>))

\* `bullets or []` of an Optional[list] argument
bullets_or_empty(bullets) == IF bullets = <<>> THEN <<>> ELSE bullets[1]

add_experience(d, company, role, dates, bullets) ==
    LET id == new_id(d.experiences, "exp")
        new_exp == [id |-> id, company |-> company, role |-> role, dates |-> dates,
                    bullets |-> bullets_or_empty(bullets)]
    IN SaveThenReturn(d, [d EXCEPT !.experiences = insert0(d.experiences, new_exp)],
                      Msg("Experience added successfully with ID: {}", <<id>>))

\* a removal that saves without looking whether anything was removed
remove_experience_silent(d, experience_id) ==
    save_resume(d, [d EXCEPT !.experiences = WithoutId(d.experiences, experience_id)])

remove_experience(d, experience_id) ==
    LET rest == WithoutId(d.experiences, experience_id)
    IN IF Len(rest) = Len(d.experiences)
       THEN Returned(d, Msg("Error: Experience with ID '{}' not found.", <<experience_id>>))
       ELSE save_resume(d, [d EXCEPT !.experiences = rest])

add_bullet(d, experience_id, bullet) ==
    IF IsBlank(bullet)
    THEN Returned(d, Msg("Error: Bullet text cannot be empty.", <<>>))
    ELSE IF HasId(d.experiences, experience_id)
    THEN LET i == FirstIdx(d.experiences, experience_id)
         IN save_resume(d, [d EXCEPT !.experiences[i].bullets = append(@, strip(bullet))])
    ELSE Returned(d, Msg("Error: Experience with ID '{}' not found.", <<experience_id>>))

\* 0 <= bullet_index < len(exp["bullets"])
InRange(bullet_index, bullets) == 0 <= bullet_index /\ bullet_index < Len(bullets)

\* an update whose range test lacks `0 <=`, so that a negative index counts from the end
update_bullet_negative_index(d, experience_id, bullet_index, new_bullet) ==
    IF IsBlank(new_bullet)
    THEN Returned(d, Msg("Error: Bullet text cannot be empty.", <<>>))
    ELSE IF HasId(d.experiences, experience_id)
    THEN LET i == FirstIdx(d.experiences, experience_id)
             bs == d.experiences[i].bullets
             k == IF bullet_index < 0 THEN Len(bs) + bullet_index + 1 ELSE bullet_index + 1
         IN IF bullet_index < Len(bs) /\ k >= 1
            THEN save_resume(d, [d EXCEPT !.experiences[i].bullets[k] = strip(new_bullet)])
            ELSE Returned(d, Msg("Error: Bullet index {} out of range. Experience has {} bullets.",
                                 <<bullet_index, Len(bs)>>))
    ELSE Returned(d, Msg("Error: Experience with ID '{}' not found.", <<experience_id>>))

update_bullet(d, experience_id, bullet_index, new_bullet) ==
    IF IsBlank(new_bullet)
    THEN Returned(d, Msg("Error: Bullet text cannot be empty.", <<>>))
    ELSE IF HasId(d.experiences, experience_id)
    THEN LET i == FirstIdx(d.experiences, experience_id)
             bs == d.experiences[i].bullets
         IN IF InRange(bullet_index, bs)
            THEN save_resume(d, [d EXCEPT !.experiences[i].bullets[bullet_index + 1] = strip(new_bullet)])
            ELSE Returned(d, Msg("Error: Bullet index {} out of range. Experience has {} bullets.",
                                 <<bullet_index, Len(bs)>>))
    ELSE Returned(d, Msg("Error: Experience with ID '{}' not found.", <<experience_id>>))

\* removed[:50] + "..." if len(removed) > 50 else removed
TruncLen == 50

truncated(removed) ==
    IF Len(removed) > TruncLen
    THEN SubSeq(removed, 1, TruncLen) \o <<".", ".", ".">>
    ELSE removed

remove_bullet(d, experience_id, bullet_index) ==
    IF HasId(d.experiences, experience_id)
    THEN LET i == FirstIdx(d.experiences, experience_id)
             bs == d.experiences[i].bullets
         IN IF InRange(bullet_index, bs)
            THEN SaveThenReturn(d, [d EXCEPT !.experiences[i].bullets = RemoveAt(bs, bullet_index + 1)],
                                Msg("Bullet removed: '{}'", <<truncated(bs[bullet_index + 1])>>))
            ELSE Returned(d, Msg("Error: Bullet index {} out of range. Experience has {} bullets.",
                                 <<bullet_index, Len(bs)>>))
    ELSE Returned(d, Msg("Error: Experience with ID '{}' not found.", <<experience_id>>))

\* ---------------------------------------------------------------- skills
\* an add that does not look for the skill in the list
add_skill_unchecked(d, skill) ==
    IF IsBlank(skill)
    THEN Returned(d, Msg("Error: Skill cannot be empty.", <<>>))
    ELSE save_resume(d, [d EXCEPT !.skills = append(@, strip(skill))])

add_skill(d, skill) ==
    IF IsBlank(skill)
    THEN Returned(d, Msg("Error: Skill cannot be empty.", <<>>))
    ELSE IF InList(d.skills, strip(skill))
    THEN Returned(d, Msg("Skill '{}' already exists.", <<strip(skill)>>))
    ELSE save_resume(d, [d EXCEPT !.skills = append(@, strip(skill))])

remove_skill(d, skill) ==
    IF ~InList(d.skills, strip(skill))
    THEN Returned(d, Msg("Error: Skill '{}' not found.", <<strip(skill)>>))
    ELSE save_resume(d, [d EXCEPT !.skills = RemoveAt(@, FirstPos(@, strip(skill)))])

\* ---------------------------------------------------------------- projects
add_project(d, name, description) ==
    IF IsBlank(name)
    THEN Returned(d, Msg("Error: Project name cannot be empty.", <<>>))
    ELSE IF IsBlank(description)
    THEN Returned(d, Msg("Error: Project description cannot be empty.", <<>>))
    ELSE LET id == new_id(d.projects, "proj")
             new_proj == [id |-> id, name |-> strip(name), description |-> strip(description)]
         IN SaveThenReturn(d, [d EXCEPT !.projects = append(d.projects, new_proj)],
                           Msg("Project added successfully with ID: {}", <<id>>))

update_project(d, project_id, name, description) ==
    IF HasId(d.projects, project_id)
    THEN LET i == FirstIdx(d.projects, project_id)
             p0 == d.projects[i]
             p1 == IF Truthy(name) THEN [p0 EXCEPT !.name = strip(name)] ELSE p0
             p2 == IF Truthy(description) THEN [p1 EXCEPT !.description = strip(description)] ELSE p1
         IN save_resume(d, [d EXCEPT !.projects[i] = p2])
    ELSE Returned(d, Msg("Error: Project with ID '{}' not found.", <<project_id>>))

remove_project(d, project_id) ==
    LET rest == WithoutId(d.projects, project_id)
    IN IF Len(rest) = Len(d.projects)
       THEN Returned(d, Msg("Error: Project with ID '{}' not found.", <<project_id>>))
       ELSE save_resume(d, [d EXCEPT !.projects = rest])

\* ---------------------------------------------------------------- education
update_education(d, education_id, degree, institution, year) ==
    IF HasId(d.education, education_id)
    THEN LET i == FirstIdx(d.education, education_id)
             e0 == d.education[i]
             e1 == IF Truthy(degree) THEN [e0 EXCEPT !.degree = strip(degree)] ELSE e0
             e2 == IF Truthy(institution) THEN [e1 EXCEPT !.institution = strip(institution)] ELSE e1
             e3 == IF Truthy(year) THEN [e2 EXCEPT !.year = strip(year)] ELSE e2
         IN save_resume(d, [d EXCEPT !.education[i] = e3])
    ELSE Returned(d, Msg("Error: Education with ID '{}' not found.", <<education_id>>))

add_education(d, degree, institution, year) ==
    IF IsBlank(degree)
    THEN Returned(d, Msg("Error: Degree cannot be empty.", <<>>))
    ELSE IF IsBlank(institution)
    THEN Returned(d, Msg("Error: Institution cannot be empty.", <<>>))
    ELSE IF IsBlank(year)
    THEN Returned(d, Msg("Error: Year cannot be empty.", <<>>))
    ELSE LET id == new_id(d.education, "edu")
             new_edu == [id |-> id, degree |-> strip(degree),
                         institution |-> strip(institution), year |-> strip(year)]
         IN SaveThenReturn(d, [d EXCEPT !.education = append(d.education, new_edu)],
                           Msg("Education added successfully with ID: {}", <<id>>))

remove_education(d, education_id) ==
    LET rest == WithoutId(d.education, education_id)
    IN IF Len(rest) = Len(d.education)
       THEN Returned(d, Msg("Error: Education with ID '{}' not found.", <<education_id>>))
       ELSE save_resume(d, [d EXCEPT !.education = rest])

\* ---------------------------------------------------------------- arguments of the calls
Texts == {S_empty, S_blank, S_a, S_pad_b}

OptTexts == Texts \cup {None}

\* the values one argument of a call with several string arguments takes: empty,
\* whitespace-only, and non-empty with whitespace around it
Varied == {S_empty, S_blank, S_pad_b}

\* argument tuples in which at most one argument differs from dflt, and one in which all do
Args2(dflt) ==
    {<<x, dflt>> : x \in Varied \cup {dflt}} \cup {<<dflt, x>> : x \in Varied}
        \cup {<<S_pad_b, S_pad_b>>}

Args3(dflt) ==
    {<<x, dflt, dflt>> : x \in Varied \cup {dflt}} \cup {<<dflt, x, dflt>> : x \in Varied}
        \cup {<<dflt, dflt, x>> : x \in Varied} \cup {<<S_pad_b, S_pad_b, S_pad_b>>}

\* bullets argument of add_experience: None, ["a"], [None]
BulletsArgs == {<<>>, <<(<<S_a>>)>>, <<(<<None>>)>>}

AddExperienceArgs ==
    {<<a[1], a[2], a[3], <<>>>> : a \in Args3(S_a)} \cup {<<S_a, S_a, S_a, b>> : b \in BulletsArgs}

\* ids a caller passes: those of the collection and one that names no entity
IdArgs(coll, prefix) == Ids(coll) \cup {mkid(prefix, AbsentNum)}

\* bullet indices a caller passes for the experience id: every index of its bullets, the
\* one below and the one above
IdxArgs(d, id) ==
    -1..(IF HasId(d.experiences, id)
         THEN Len(d.experiences[FirstIdx(d.experiences, id)].bullets)
         ELSE 0)

SectionArgs == {"summary", "experiences", "skills", "projects", "education", "hobbies"}

\* ---------------------------------------------------------------- the state machine
NoCall == [op |-> "init", args |-> <<>>, ret |-> Msg("", <<>>), wrote |-> FALSE, raised |-> FALSE]

EmptyResume ==
    [summary |-> S_a, experiences |-> <<>>, skills |-> <<>>, projects |-> <<>>, education |-> <<>>]

SampleResume ==
    [summary |-> S_a,
     experiences |-> << [id |-> mkid("exp", 3), company |-> S_a, role |-> S_a, dates |-> S_a,
                         bullets |-> <<S_a, S_b>>],
                        [id |-> mkid("exp", 1), company |-> S_b, role |-> S_b, dates |-> S_b,
                         bullets |-> <<>>] >>,
     skills |-> <<S_a>>,
     projects |-> << [id |-> mkid("proj", 1), name |-> S_a, description |-> S_a] >>,
     education |-> << [id |-> mkid("edu", 2), degree |-> S_a, institution |-> S_a, year |-> S_a],
                      [id |-> mkid("proj", 5), degree |-> S_b, institution |-> S_b, year |-> S_b] >>]

InitialResumes == {EmptyResume, SampleResume}

AllIds(d) ==
    [experiences |-> Ids(d.experiences), projects |-> Ids(d.projects), education |-> Ids(d.education)]

\* the callers of SpecConc
Procs == {1, 2}

\* a caller that has made no call yet
IdleProc(d) ==
    [pc |-> "idle", op |-> "none", args |-> <<>>, loaded |-> d, ret |-> Msg("", <<>>),
     wrote |-> FALSE, fresh |-> FALSE, latest |-> FALSE]

Init ==
    /\ data \in InitialResumes
    /\ prev = data
    /\ last = NoCall
    /\ seen = [experiences |-> {}, projects |-> {}, education |-> {}]
    /\ steps = 0
    /\ procs = [p \in Procs |-> IdleProc(data)]

\* one call of a tool: load, the tool's body, the write if any, the return
Call(op, args, r) ==
    /\ steps < MaxOps
    /\ data' = r.data
    /\ prev' = data
    /\ last' = [op |-> op, args |-> args, ret |-> r.ret, wrote |-> r.wrote, raised |-> r.raised]
    /\ seen' = [c \in DOMAIN seen |-> seen[c] \cup AllIds(data)[c]]
    /\ steps' = steps + 1
    /\ UNCHANGED procs

GetResume == Call("get_resume", <<>>, get_resume(data))

GetSection == \E n \in SectionArgs : Call("get_section", <<n>>, get_section(data, n))

GetSummary == Call("get_summary", <<>>, get_summary(data))

GetExperiences == Call("get_experiences", <<>>, get_experiences(data))

GetExperienceById ==
    \E id \in IdArgs(data.experiences, "exp") :
        Call("get_experience_by_id", <<id>>, get_experience_by_id(data, id))

GetSkills == Call("get_skills", <<>>, get_skills(data))

GetProjects == Call("get_projects", <<>>, get_projects(data))

GetProjectById ==
    \E id \in IdArgs(data.projects, "proj") :
        Call("get_project_by_id", <<id>>, get_project_by_id(data, id))

GetEducation == Call("get_education", <<>>, get_education(data))

GetEducationById ==
    \E id \in IdArgs(data.education, "edu") :
        Call("get_education_by_id", <<id>>, get_education_by_id(data, id))

UpdateSummary == \E t \in OptTexts : Call("update_summary", <<t>>, update_summary(data, t))

UpdateExperience ==
    \E id \in IdArgs(data.experiences, "exp"), a \in Args3(None) :
        Call("update_experience", <<id, a[1], a[2], a[3]>>,
             update_experience(data, id, a[1], a[2], a[3]))

AddExperience ==
    \E a \in AddExperienceArgs :
        Call("add_experience", a, add_experience(data, a[1], a[2], a[3], a[4]))

RemoveExperience ==
    \E id \in IdArgs(data.experiences, "exp") :
        Call("remove_experience", <<id>>, remove_experience(data, id))

AddBullet ==
    \E id \in IdArgs(data.experiences, "exp"), t \in Varied :
        Call("add_bullet", <<id, t>>, add_bullet(data, id, t))

UpdateBullet ==
    \E id \in IdArgs(data.experiences, "exp"), t \in Varied :
      \E i \in IdxArgs(data, id) :
        Call("update_bullet", <<id, i, t>>, update_bullet(data, id, i, t))

RemoveBullet ==
    \E id \in IdArgs(data.experiences, "exp") :
      \E i \in IdxArgs(data, id) :
        Call("remove_bullet", <<id, i>>, remove_bullet(data, id, i))

AddSkill == \E t \in OptTexts : Call("add_skill", <<t>>, add_skill(data, t))

RemoveSkill == \E t \in Texts : Call("remove_skill", <<t>>, remove_skill(data, t))

AddProject ==
    \E a \in Args2(S_a) : Call("add_project", a, add_project(data, a[1], a[2]))

UpdateProject ==
    \E id \in IdArgs(data.projects, "proj"), a \in Args2(None) :
        Call("update_project", <<id, a[1], a[2]>>, update_project(data, id, a[1], a[2]))

RemoveProject ==
    \E id \in IdArgs(data.projects, "proj") :
        Call("remove_project", <<id>>, remove_project(data, id))

AddEducation ==
    \E a \in Args3(S_a) : Call("add_education", a, add_education(data, a[1], a[2], a[3]))

UpdateEducation ==
    \E id \in IdArgs(data.education, "edu"), a \in Args3(None) :
        Call("update_education", <<id, a[1], a[2], a[3]>>,
             update_education(data, id, a[1], a[2], a[3]))

RemoveEducation ==
    \E id \in IdArgs(data.education, "edu") :
        Call("remove_education", <<id>>, remove_education(data, id))

Next ==
    \/ GetResume \/ GetSection \/ GetSummary
    \/ GetExperiences \/ GetExperienceById
    \/ GetSkills
    \/ GetProjects \/ GetProjectById
    \/ GetEducation \/ GetEducationById
    \/ UpdateSummary
    \/ UpdateExperience \/ AddExperience \/ RemoveExperience
    \/ AddBullet \/ UpdateBullet \/ RemoveBullet
    \/ AddSkill \/ RemoveSkill
    \/ AddProject \/ UpdateProject \/ RemoveProject
    \/ AddEducation \/ UpdateEducation \/ RemoveEducation

Spec == Init /\ [][Next]_vars

\* ---------------------------------------------------------------- two callers, no lock
\* the body of the mutating tool `op` on the loaded document d
Tool(op, args, d) ==
    CASE op = "update_summary" -> update_summary(d, args[1])
      [] op = "update_experience" -> update_experience(d, args[1], args[2], args[3], args[4])
      [] op = "add_experience" -> add_experience(d, args[1], args[2], args[3], args[4])
      [] op = "remove_experience" -> remove_experience(d, args[1])
      [] op = "add_bullet" -> add_bullet(d, args[1], args[2])
      [] op = "update_bullet" -> update_bullet(d, args[1], args[2], args[3])
      [] op = "remove_bullet" -> remove_bullet(d, args[1], args[2])
      [] op = "add_skill" -> add_skill(d, args[1])
      [] op = "remove_skill" -> remove_skill(d, args[1])
      [] op = "add_project" -> add_project(d, args[1], args[2])
      [] op = "update_project" -> update_project(d, args[1], args[2], args[3])
      [] op = "remove_project" -> remove_project(d, args[1])
      [] op = "add_education" -> add_education(d, args[1], args[2], args[3])
      [] op = "update_education" -> update_education(d, args[1], args[2], args[3], args[4])
      [] op = "remove_education" -> remove_education(d, args[1])

\* the calls the two callers make
ConcCalls ==
    {<<"update_summary", <<S_b>>>>,
     <<"add_experience", <<S_a, S_a, S_a, <<>>>>>>,
     <<"add_bullet", <<mkid("exp", 1), S_a>>>>,
     <<"remove_experience", <<mkid("exp", 1)>>>>,
     <<"add_skill", <<S_b>>>>,
     <<"remove_skill", <<S_a>>>>,
     <<"add_project", <<S_a, S_a>>>>,
     <<"add_education", <<S_a, S_a, S_a>>>>}

\* a write that is given up when the file is no longer what the caller loaded
written_if_unchanged(file, loaded, r) == IF r.wrote /\ file = loaded THEN r.data ELSE file

\* resume.json after the rest of a call that loaded `loaded` and came to the result r:
\* open(RESUME_FILE, "w") and json.dump replace whatever the file holds
written(file, loaded, r) == IF r.wrote THEN r.data ELSE file

\* _load_resume() of a call by caller p
ConcLoad(p) ==
    /\ steps < MaxOps
    /\ procs[p].pc \in {"idle", "done"}
    /\ \E c \in ConcCalls :
           procs' = [procs EXCEPT ![p] = [pc |-> "loaded", op |-> c[1], args |-> c[2],
                                          loaded |-> data, ret |-> Msg("", <<>>),
                                          wrote |-> FALSE, fresh |-> TRUE, latest |-> FALSE]]
    /\ steps' = steps + 1
    /\ UNCHANGED <<data, prev, last, seen>>

\* the rest of the call of caller p: mutate what it loaded, validate, save, return
ConcSave(p) ==
    /\ procs[p].pc = "loaded"
    /\ LET r == Tool(procs[p].op, procs[p].args, procs[p].loaded)
       IN /\ data' = written(data, procs[p].loaded, r)
          /\ prev' = data
          /\ last' = [op |-> procs[p].op, args |-> procs[p].args, ret |-> r.ret,
                      wrote |-> r.wrote, raised |-> r.raised]
          /\ procs' = [q \in Procs |->
                          IF q = p
                          THEN [procs[p] EXCEPT !.pc = "done", !.ret = r.ret, !.wrote = r.wrote,
                                                !.latest = TRUE]
                          ELSE [procs[q] EXCEPT !.latest = FALSE,
                                                !.fresh = @ /\ ~(r.wrote /\ procs[q].pc = "loaded")]]
    /\ seen' = [c \in DOMAIN seen |-> seen[c] \cup AllIds(data)[c]]
    /\ UNCHANGED steps

ConcNext == \E p \in Procs : ConcLoad(p) \/ ConcSave(p)

SpecConc == Init /\ [][ConcNext]_vars

\* ---------------------------------------------------------------- properties
Collections == {"experiences", "projects", "education"}

PrefixOf == [experiences |-> "exp", projects |-> "proj", education |-> "edu"]

AddOpOf == [experiences |-> "add_experience", projects |-> "add_project", education |-> "add_education"]

\* the call just made was an add to collection c that reported success
Added(c) == last.op = AddOpOf[c] /\ ~last.raised /\ last.wrote

\* the id named in the success message of an add
AddedId == last.ret.args[1]

\* C1: the persisted document satisfies the Resume schema after every call, and a call
\* whose validation fails leaves the file as it was
PersistedDocumentValid ==
    /\ ValidResume(data)
    /\ (last.raised => data = prev /\ ~last.wrote)

\* C1 witness: an add_experience whose document failed validation
ValidationFailed == last.op = "add_experience" /\ last.raised /\ ValidResume(prev)

\* C2: every entity id is unique within its own collection
IdsUnique ==
    \A c \in Collections :
        \A i, j \in 1..Len(data[c]) : i # j => data[c][i].id # data[c][j].id

\* C2 witness: an add to a collection whose ids have a gap
AddedWithGap ==
    /\ Added("experiences")
    /\ Ids(prev.experiences) = {mkid("exp", 1), mkid("exp", 3)}
    /\ Len(data.experiences) = 3

\* C3 (as stated): the id generated by an add was never present in the collection before
IdNeverReused ==
    \A c \in Collections : Added(c) => AddedId \notin seen[c]

\* C3 (amended): the id generated by an add is not in the collection at the time of the
\* add, and is no earlier id whose suffix is at most that of an id still in the collection
IdNotReusedBelowSurvivor ==
    \A c \in Collections :
        Added(c) =>
            /\ AddedId \notin Ids(prev[c])
            /\ \A x \in seen[c] :
                   (/\ startswith(x, PrefixOf[c])
                    /\ \E y \in Ids(prev[c]) :
                           startswith(y, PrefixOf[c]) /\ suffix(y) >= suffix(x))
                   => AddedId # x

\* C3 witness: an add after the removal of an id lower than a surviving one
AddedAfterLowerRemoved ==
    /\ Added("experiences")
    /\ mkid("exp", 1) \in seen.experiences
    /\ Ids(prev.experiences) = {mkid("exp", 3)}

\* C4: the generated id is <prefix>_<m+1>, m the largest suffix among the collection's ids
\* with the collection's prefix, and <prefix>_1 when there is none
IdIsMaxPlusOne ==
    \A c \in Collections :
        Added(c) =>
            LET matching == {x \in Ids(prev[c]) : x[1] = PrefixOf[c]}
            IN /\ AddedId[1] = PrefixOf[c]
               /\ Len(AddedId) = 2
               /\ IF matching = {}
                  THEN AddedId[2] = 1
                  ELSE /\ \E x \in matching : AddedId[2] = x[2] + 1
                       /\ \A x \in matching : x[2] < AddedId[2]

\* C4 witness: an add to a collection that also holds an id of another prefix, where the
\* maximum differs from the count
AddedBesideForeignId ==
    /\ Added("education")
    /\ Ids(prev.education) = {mkid("edu", 2), mkid("proj", 5)}
    /\ AddedId = mkid("edu", 3)

\* C5: add_experience puts the new entry first, add_project and add_education put it last,
\* and the entries that were there keep their contents and order
AddPositions ==
    /\ Added("experiences") =>
          /\ data.experiences[1].id = AddedId
          /\ Tail(data.experiences) = prev.experiences
    /\ \A c \in {"projects", "education"} :
          Added(c) =>
              /\ data[c][Len(data[c])].id = AddedId
              /\ SubSeq(data[c], 1, Len(data[c]) - 1) = prev[c]

\* C5 witness: an experience added to a list that was not empty
AddedExperienceInFront ==
    /\ Added("experiences")
    /\ Len(prev.experiences) = 2
    /\ data.experiences[1].id = mkid("exp", 4)

\* the entity the call just made was aimed at, before and after the call
UpdateOpOf ==
    [experiences |-> "update_experience", projects |-> "update_project", education |-> "update_education"]

FieldsOf ==
    [experiences |-> <<"company", "role", "dates">>,
     projects |-> <<"name", "description">>,
     education |-> <<"degree", "institution", "year">>]

\* the call just made was an update of an existing entity of collection c
Updated(c) == last.op = UpdateOpOf[c] /\ HasId(prev[c], last.args[1])

TargetBefore(c) == prev[c][FirstIdx(prev[c], last.args[1])]

TargetAfter(c) == data[c][FirstIdx(prev[c], last.args[1])]

\* C6 (as stated): after a successful add (of non-blank strings), get_*_by_id with the
\* returned id yields the entity just added, its string fields being the trimmed inputs
AddThenGetTrimmed ==
    /\ (Added("experiences") /\ \A k \in 1..3 : ~IsBlank(last.args[k])) =>
          LET r == get_experience_by_id(data, AddedId).ret
          IN /\ r.msg = "json"
             /\ r.args[1].id = AddedId
             /\ r.args[1].company = strip(last.args[1])
             /\ r.args[1].role = strip(last.args[2])
             /\ r.args[1].dates = strip(last.args[3])
    /\ Added("projects") =>
          LET r == get_project_by_id(data, AddedId).ret
          IN /\ r.msg = "json"
             /\ r.args[1] = [id |-> AddedId, name |-> strip(last.args[1]),
                             description |-> strip(last.args[2])]
    /\ Added("education") =>
          LET r == get_education_by_id(data, AddedId).ret
          IN /\ r.msg = "json"
             /\ r.args[1] = [id |-> AddedId, degree |-> strip(last.args[1]),
                             institution |-> strip(last.args[2]), year |-> strip(last.args[3])]

\* C7 (as stated): an update of an existing entity leaves a field untouched when its
\* argument is absent, empty or whitespace-only, replaces it by the argument when the
\* argument is non-empty after trimming, and never makes a field empty
UpdateKeepsOrReplaces ==
    \A c \in Collections :
        Updated(c) =>
            \A k \in 1..Len(FieldsOf[c]) :
                LET f == FieldsOf[c][k]
                    arg == last.args[k + 1]
                IN /\ IsBlank(arg) => TargetAfter(c)[f] = TargetBefore(c)[f]
                   /\ ~IsBlank(arg) => TargetAfter(c)[f] \in {arg, strip(arg)}
                   /\ TargetAfter(c)[f] = <<>> => TargetBefore(c)[f] = <<>>

\* C8 (as stated): the persisted summary and every required string field of every
\* persisted entity is a non-empty string
NonEmpty(v) == IsStr(v) /\ v # <<>>

RequiredStringsNonEmpty ==
    /\ NonEmpty(data.summary)
    /\ \A c \in Collections :
           \A i \in 1..Len(data[c]) :
               \A k \in 1..Len(FieldsOf[c]) : NonEmpty(data[c][i][FieldsOf[c][k]])

\* the returned strings that report an error
ErrorMsgs ==
    {"Error: Summary cannot be empty.", "Error: Bullet text cannot be empty.",
     "Error: Skill cannot be empty.", "Error: Project name cannot be empty.",
     "Error: Project description cannot be empty.", "Error: Degree cannot be empty.",
     "Error: Institution cannot be empty.", "Error: Year cannot be empty.",
     "Error: Experience with ID '{}' not found.", "Error: Project with ID '{}' not found.",
     "Error: Education with ID '{}' not found.", "Error: Skill '{}' not found.",
     "Error: Bullet index {} out of range. Experience has {} bullets.",
     "Error: Invalid section '{}'. Valid sections: {}"}

\* the positions of the required string arguments of the add and replace operations
RequiredArgs ==
    [update_summary |-> {1}, add_experience |-> {1, 2, 3}, add_project |-> {1, 2},
     add_education |-> {1, 2, 3}, add_skill |-> {1}, add_bullet |-> {2}, update_bullet |-> {3}]

\* C9 (as stated): an add or replace operation given an empty or whitespace-only required
\* string returns an error string and does not write
BlankRequiredRejected ==
    (/\ last.op \in DOMAIN RequiredArgs
     /\ \E k \in RequiredArgs[last.op] : IsBlank(last.args[k]))
    => /\ ~last.raised
       /\ last.ret.msg \in ErrorMsgs
       /\ ~last.wrote
       /\ data = prev

\* C10: the skills list holds no two equal strings, and add_skill with a skill that is
\* in the list reports that it exists, does not write and leaves one occurrence of it
SkillsNoDuplicates ==
    /\ \A i, j \in 1..Len(data.skills) : i # j => data.skills[i] # data.skills[j]
    /\ (/\ last.op = "add_skill"
        /\ ~IsBlank(last.args[1])
        /\ InList(prev.skills, strip(last.args[1])))
       => /\ last.ret = Msg("Skill '{}' already exists.", <<strip(last.args[1])>>)
          /\ ~last.wrote
          /\ data = prev
          /\ Cardinality({i \in 1..Len(data.skills) : data.skills[i] = strip(last.args[1])}) = 1

\* C10 witness: add_skill of a skill that is in the list
SkillAlreadyExists ==
    /\ last.op = "add_skill"
    /\ InList(prev.skills, strip(last.args[1]))
    /\ last.ret.msg = "Skill '{}' already exists."

\* the call just made was update_bullet or remove_bullet on an existing experience with
\* an index outside 0 <= index < n, n the number of its bullets
BulletIndexOutside ==
    /\ last.op \in {"update_bullet", "remove_bullet"}
    /\ HasId(prev.experiences, last.args[1])
    /\ (last.args[2] < 0 \/ last.args[2] >= Len(TargetBefore("experiences").bullets))

OutOfRangeReported ==
    /\ last.ret = Msg("Error: Bullet index {} out of range. Experience has {} bullets.",
                      <<last.args[2], Len(TargetBefore("experiences").bullets)>>)
    /\ ~last.raised
    /\ ~last.wrote
    /\ data = prev

\* C11 (as stated): update_bullet and remove_bullet with an index outside 0 <= index < n
\* return the out-of-range error that names n, and the document is unchanged
OutOfRangeAlwaysReported == BulletIndexOutside => OutOfRangeReported

\* C11 (amended): the same, for update_bullet when its new text is not blank; with a blank
\* text it is the empty-text error that is returned, the document being unchanged as well
OutOfRangeReportedForText ==
    BulletIndexOutside =>
        IF last.op = "update_bullet" /\ IsBlank(last.args[3])
        THEN /\ last.ret = Msg("Error: Bullet text cannot be empty.", <<>>)
             /\ ~last.wrote
             /\ data = prev
        ELSE OutOfRangeReported

\* C11 witness: update_bullet at index n = 2 of an experience with two bullets
UpdateBulletAtCount ==
    /\ last.op = "update_bullet"
    /\ HasId(prev.experiences, last.args[1])
    /\ Len(TargetBefore("experiences").bullets) = 2
    /\ last.args[2] = 2
    /\ last.ret.msg = "Error: Bullet index {} out of range. Experience has {} bullets."

\* the operations that look an entity up by id, and their collection
ByIdOps ==
    [get_experience_by_id |-> "experiences", update_experience |-> "experiences",
     remove_experience |-> "experiences", add_bullet |-> "experiences",
     update_bullet |-> "experiences", remove_bullet |-> "experiences",
     get_project_by_id |-> "projects", update_project |-> "projects",
     remove_project |-> "projects",
     get_education_by_id |-> "education", update_education |-> "education",
     remove_education |-> "education"]

\* the call just made named an entity, or a skill, that is not there
NotFoundCase ==
    \/ /\ last.op \in DOMAIN ByIdOps
       /\ \A i \in 1..Len(prev[ByIdOps[last.op]]) : prev[ByIdOps[last.op]][i].id # last.args[1]
    \/ /\ last.op = "remove_skill"
       /\ \A i \in 1..Len(prev.skills) : prev.skills[i] # strip(last.args[1])

\* C12: an operation given an id that matches no entity of its collection, and remove_skill
\* given a skill that is not in the list, returns an error string and does not write
NotFoundReported ==
    NotFoundCase =>
        /\ last.ret.msg \in ErrorMsgs
        /\ ~last.raised
        /\ ~last.wrote
        /\ data = prev

\* C12 witness: remove_experience of an id that is not in a non-empty list
RemoveMissingExperience ==
    /\ last.op = "remove_experience"
    /\ prev.experiences # <<>>
    /\ ~HasId(prev.experiences, last.args[1])
    /\ last.ret.msg = "Error: Experience with ID '{}' not found."

\* C13: get_section with a name other than the five section names returns the
\* invalid-section error, with one of them the content of that section, and in both
\* cases the document is unchanged
GetSectionResult ==
    last.op = "get_section" =>
        /\ ~last.raised
        /\ ~last.wrote
        /\ data = prev
        /\ IF last.args[1] \in {"summary", "experiences", "skills", "projects", "education"}
           THEN last.ret.msg = "json" /\ last.ret.args = <<data[last.args[1]]>>
           ELSE last.ret.msg = "Error: Invalid section '{}'. Valid sections: {}"

\* C13 witness: get_section of a name that is no section
GetSectionInvalid ==
    /\ last.op = "get_section"
    /\ last.args[1] = "hobbies"
    /\ last.ret.msg = "Error: Invalid section '{}'. Valid sections: {}"

RemoveOpOf ==
    [experiences |-> "remove_experience", projects |-> "remove_project", education |-> "remove_education"]

\* the call just made was a remove from collection c that was saved
Removed(c) == last.op = RemoveOpOf[c] /\ ~last.raised /\ last.wrote

\* C15: a successful remove takes out the entity with the given id and nothing else: the
\* others keep their ids, their fields and their order, and the list is one shorter
RemovedExactlyOne ==
    \A c \in Collections :
        Removed(c) =>
            \E k \in 1..Len(prev[c]) :
                /\ prev[c][k].id = last.args[1]
                /\ Len(data[c]) = Len(prev[c]) - 1
                /\ \A m \in 1..Len(data[c]) : data[c][m] = prev[c][IF m < k THEN m ELSE m + 1]

\* C15 witness: the second of two experiences was removed
RemovedSecondExperience ==
    /\ Removed("experiences")
    /\ Len(prev.experiences) = 2
    /\ prev.experiences[2].id = last.args[1]
    /\ Len(data.experiences) = 1

\* the call just made was a bullet operation op on an existing experience that was saved
BulletOpDone(op) == last.op = op /\ ~last.raised /\ last.wrote

BulletsBefore == TargetBefore("experiences").bullets

BulletsAfter == TargetAfter("experiences").bullets

\* the experiences other than the one the call was aimed at are as they were
OtherExperiencesSame ==
    /\ Len(data.experiences) = Len(prev.experiences)
    /\ \A j \in 1..Len(prev.experiences) :
           prev.experiences[j].id # last.args[1] => data.experiences[j] = prev.experiences[j]

\* C16: add_bullet puts the trimmed text after the n bullets, update_bullet replaces the
\* bullet at its index only, remove_bullet deletes the bullet at its index and keeps the
\* order of the others; the bullets of the other experiences are unchanged
BulletEdits ==
    /\ BulletOpDone("add_bullet") =>
          /\ Len(BulletsAfter) = Len(BulletsBefore) + 1
          /\ BulletsAfter[Len(BulletsBefore) + 1] = strip(last.args[2])
          /\ \A m \in 1..Len(BulletsBefore) : BulletsAfter[m] = BulletsBefore[m]
          /\ OtherExperiencesSame
    /\ BulletOpDone("update_bullet") =>
          /\ Len(BulletsAfter) = Len(BulletsBefore)
          /\ BulletsAfter[last.args[2] + 1] = strip(last.args[3])
          /\ \A m \in 1..Len(BulletsBefore) :
                 m # last.args[2] + 1 => BulletsAfter[m] = BulletsBefore[m]
          /\ OtherExperiencesSame
    /\ BulletOpDone("remove_bullet") =>
          /\ Len(BulletsAfter) = Len(BulletsBefore) - 1
          /\ \A m \in 1..Len(BulletsAfter) :
                 BulletsAfter[m] = BulletsBefore[IF m <= last.args[2] THEN m ELSE m + 1]
          /\ OtherExperiencesSame

\* C16 witness: the first of two bullets was removed
RemovedFirstBullet ==
    /\ BulletOpDone("remove_bullet")
    /\ last.args[2] = 0
    /\ BulletsBefore = <<S_a, S_b>>
    /\ BulletsAfter = <<S_b>>

\* the section each mutating operation belongs to
SectionOfOp ==
    [update_summary |-> "summary",
     update_experience |-> "experiences", add_experience |-> "experiences",
     remove_experience |-> "experiences", add_bullet |-> "experiences",
     update_bullet |-> "experiences", remove_bullet |-> "experiences",
     add_skill |-> "skills", remove_skill |-> "skills",
     add_project |-> "projects", update_project |-> "projects", remove_project |-> "projects",
     add_education |-> "education", update_education |-> "education",
     remove_education |-> "education"]

ReadOps ==
    {"get_resume", "get_section", "get_summary", "get_experiences", "get_experience_by_id",
     "get_skills", "get_projects", "get_project_by_id", "get_education", "get_education_by_id"}

Sections == {"summary", "experiences", "skills", "projects", "education"}

\* C18: a mutating operation changes no section but its own, and a read operation changes
\* nothing
OwnSectionOnly ==
    /\ last.op \in DOMAIN SectionOfOp =>
          \A sec \in Sections \ {SectionOfOp[last.op]} : data[sec] = prev[sec]
    /\ last.op \in ReadOps => (data = prev /\ ~last.wrote)

\* C18 witness: an education entry was removed from a document that has projects
RemovedEducationOnly ==
    /\ Removed("education")
    /\ prev.projects # <<>>
    /\ data.education # prev.education
    /\ data.projects = prev.projects

\* the returned strings that confirm a write
SuccessMsgs ==
    {"Resume saved successfully.", "Experience added successfully with ID: {}",
     "Project added successfully with ID: {}", "Education added successfully with ID: {}",
     "Bullet removed: '{}'"}

\* C19: a call that returns a success confirmation has written the file; the id an add
\* names is the id of the one entity it stored, and the text remove_bullet names is the
\* bullet it took out
SuccessMeansWritten ==
    last.ret.msg \in SuccessMsgs =>
        /\ last.wrote
        /\ ~last.raised
        /\ ValidResume(data)
        /\ \A c \in Collections :
               last.op = AddOpOf[c] =>
                   /\ \A i \in 1..Len(prev[c]) : prev[c][i].id # AddedId
                   /\ Cardinality({i \in 1..Len(data[c]) : data[c][i].id = AddedId}) = 1
                   /\ Len(data[c]) = Len(prev[c]) + 1
        /\ last.op = "remove_bullet" =>
               /\ Len(BulletsAfter) = Len(BulletsBefore) - 1
               /\ last.ret.args[1] = BulletsBefore[last.args[2] + 1]
        /\ \A c \in Collections :
               last.op = RemoveOpOf[c] => \A i \in 1..Len(data[c]) : data[c][i].id # last.args[1]

\* C19 witness: add_project confirmed the id of the project it stored last
AddProjectConfirmed ==
    /\ last.op = "add_project"
    /\ last.ret.msg = "Project added successfully with ID: {}"
    /\ data.projects[Len(data.projects)].id = last.ret.args[1]
    /\ Len(prev.projects) = 1

\* C14: a document that is loaded, validated and saved with no mutation has the content
\* it had, as when an update of an existing entity is given no field
SaveWithoutMutation ==
    /\ json_load(json_dump(data)) = data
    /\ \A c \in Collections :
           (Updated(c) /\ \A k \in 1..Len(FieldsOf[c]) : last.args[k + 1] \in {None, <<>>})
           => /\ last.wrote
              /\ last.ret.msg = "Resume saved successfully."
              /\ data = prev

\* C14 witness: update_experience with no field, on a document with two experiences
UpdatedNoField ==
    /\ Updated("experiences")
    /\ \A k \in 2..4 : last.args[k] = None
    /\ last.wrote
    /\ Len(prev.experiences) = 2
    /\ prev.experiences[1].bullets = <<S_a, S_b>>

\* C17: without a lock, the save of a call writes every section it does not edit as the
\* call loaded it, whatever was saved in between; a call that loads after the saves made
\* so far sees them, and the save of such a call (one no save came in between) loses nothing
NoWriterProtection ==
    \A p \in Procs :
        /\ (procs[p].pc = "loaded" /\ procs[p].fresh) => procs[p].loaded = data
        /\ (procs[p].pc = "done" /\ procs[p].latest /\ procs[p].wrote) =>
              /\ \A sec \in Sections \ {SectionOfOp[procs[p].op]} : data[sec] = procs[p].loaded[sec]
              /\ procs[p].fresh =>
                    /\ procs[p].loaded = prev
                    /\ \A sec \in Sections \ {SectionOfOp[procs[p].op]} : data[sec] = prev[sec]

\* C17 witness: two add_project calls that loaded the same document both returned the same
\* id, and the file holds one new project only
LostUpdateSameId ==
    /\ \A p \in Procs :
           /\ procs[p].pc = "done"
           /\ procs[p].op = "add_project"
           /\ procs[p].wrote
    /\ procs[1].loaded = procs[2].loaded
    /\ procs[1].ret = procs[2].ret
    /\ procs[1].ret.msg = "Project added successfully with ID: {}"
    /\ Len(data.projects) = Len(procs[1].loaded.projects) + 1

====
